---- MODULE Spec2Model ----
(***************************************************************************)
(* github-mirror: the download-coalescing cache of src/main.go.            *)
(*                                                                         *)
(* Request tasks run the "/" handler (DownloadAndWait, then ServeFile);    *)
(* one sweeper task runs Clean.  The file system is modelled per key:      *)
(* the staging file <CacheDir>/<hash>.tmp, the entry directory             *)
(* <CacheDir>/<hash[:2]>/<hash[2:]>, and in it cached.file and meta.json   *)
(* with its modification time.                                             *)
(***************************************************************************)
EXTENDS Integers, Sequences, FiniteSets, TLC

\* ---------------------------------------------------------------- bounds
NTasks == 2          \* concurrent request tasks
MaxTasks == 3        \* request tasks where one fetch has several waiters
PayloadSize == 1     \* chunks io.Copy moves for one payload
MaxClock == 1        \* the clock stops ticking here
SweepMaxClock == 7   \* ... and here where only sweeps and reads are followed

Tasks == 1..MaxTasks
Callers == 1..NTasks
URLs == {"u1", "u2"}
NoURL == "none"

\* HashString (md5 hex of the URL): distinct URLs get distinct hashes.
HashString(u) == CASE u = "u1" -> "h1" [] u = "u2" -> "h2" [] OTHER -> "h0"
Keys == {HashString(u) : u \in URLs}

\* downloadDir: the entry directory is named by the hash alone.
downloadDir(u) == HashString(u)

\* error values; Nil is Go's nil error
Nil == "nil"
NoVal == "none"
ErrTransport == "transport"          \* req.Do() failed
ErrRemote == "remote: status"        \* status code other than 200
ErrCreate == "create file"           \* os.Create of the staging file
ErrCopy == "copy"                    \* io.Copy
ErrClose == "close"                  \* f.Close
ErrMkdir == "mkdir"                  \* os.MkdirAll
ErrRename == "rename"                \* os.Rename
ErrMeta == "write meta"              \* ioutil.WriteFile
Errors == {ErrTransport, ErrRemote, ErrCreate, ErrCopy, ErrClose, ErrMkdir,
           ErrRename, ErrMeta}

Absent == -1                         \* a file that does not exist
Retentions == {0}                    \* keepDuration values Clean is called with
SweepRetentions == {3}

VARIABLES
  pc,          \* [Tasks -> position in the handler]
  url,         \* [Tasks -> the mirrorURL of the request]
  err,         \* [Tasks -> download()'s named result err]
  ret,         \* [Tasks -> what DownloadAndWait returned to the handler]
  mu,          \* d.mu: 0 when free, else the task holding it
  workers,     \* d.workers: [Keys -> BOOLEAN] (a missing key reads false)
  waiters,     \* d.waiters: [Keys -> sequence of channels]; a channel is
               \* named by the task that made it
  chan,        \* [Tasks -> contents of the task's one-slot channel]
  tmpFile,     \* [Keys -> bytes in <hash>.tmp, or Absent]
  dirExists,   \* [Keys -> the entry directory exists]
  cachedFile,  \* [Keys -> bytes in cached.file, or Absent]
  metaFile,    \* [Keys -> "absent" | "empty" (created, not yet written) | "valid"]
  mtime,       \* [Keys -> modification time of meta.json]
  dashboard,   \* d.dashboard: [Keys -> Status.Copied, or Absent]
  clock,       \* time.Now()
  sweeper,     \* the task of main's sweeper loop, inside Clean
  path,        \* history: [Tasks -> the branch DownloadAndWait took]
  expect,      \* history: [Tasks -> the err of the download() whose completion
               \* step wrote to the task's channel]
  outcome,     \* history: [Keys -> "ok" or "error", as the latest download() of
               \* the key returned]
  lastAccess,  \* history: [Keys -> time of the commit or of the latest ServeFile
               \* of the key]
  createdAt    \* history: [Keys -> time of the commit]

vars == <<pc, url, err, ret, mu, workers, waiters, chan, tmpFile, dirExists,
          cachedFile, metaFile, mtime, dashboard, clock, sweeper, path,
          expect, outcome, lastAccess, createdAt>>

taskVars == <<pc, url, err, ret, path, expect>>
lockVars == <<mu, workers, waiters, chan>>
fileVars == <<tmpFile, dirExists, cachedFile, metaFile, mtime, lastAccess,
              createdAt>>

KeyOf(t) == HashString(url[t])

\* positions inside download()
DownloadPCs == {"dl_req", "dl_create", "dl_copy", "dl_mkdir", "dl_rename",
                "dl_meta_open", "dl_meta_write", "dl_abort"}
\* from the start of download() to the end of the fetcher's completion step
FetchPCs == DownloadPCs \cup {"relock", "notify"}

Downloading(k) == {t \in Tasks : pc[t] \in DownloadPCs /\ KeyOf(t) = k}
Fetching(k) == {t \in Tasks : pc[t] \in FetchPCs /\ KeyOf(t) = k}

Init ==
  /\ pc = [t \in Tasks |-> "idle"]
  /\ url = [t \in Tasks |-> NoURL]
  /\ err = [t \in Tasks |-> NoVal]
  /\ ret = [t \in Tasks |-> NoVal]
  /\ mu = 0
  /\ workers = [k \in Keys |-> FALSE]
  /\ waiters = [k \in Keys |-> <<>>]
  /\ chan = [t \in Tasks |-> <<>>]
  /\ tmpFile = [k \in Keys |-> Absent]
  /\ dirExists = [k \in Keys |-> FALSE]
  /\ cachedFile = [k \in Keys |-> Absent]
  /\ metaFile = [k \in Keys |-> "absent"]
  /\ mtime = [k \in Keys |-> 0]
  /\ dashboard = [k \in Keys |-> Absent]
  /\ clock = 0
  /\ sweeper = [pc |-> "sleep", keep |-> 0, todo |-> <<>>, info |-> 0]
  /\ path = [t \in Tasks |-> NoVal]
  /\ expect = [t \in Tasks |-> NoVal]
  /\ outcome = [k \in Keys |-> NoVal]
  /\ lastAccess = [k \in Keys |-> 0]
  /\ createdAt = [k \in Keys |-> 0]

\* ------------------------------------------------------- DownloadAndWait

\* an existence check on a path that is never there
StatMetaNever(k) == FALSE

\* os.Stat(dir + "/meta.json") succeeded: the file exists, whatever it holds
StatMeta(k) == metaFile[k] # "absent"

\* IsCached: os.Stat of the entry directory
IsCached(u) == dirExists[downloadDir(u)]

\* a coalescing check that never sees the in-flight mark
IsDownloadingNever(hash) == FALSE

\* d.workers[hash]
IsDownloading(hash) == workers[hash]

\* a registration that hands every waiter of a key the channel of the first
unsafeAddShared(hash, t) ==
  [waiters EXCEPT ![hash] =
     IF waiters[hash] = <<>> THEN <<t>>
     ELSE Append(waiters[hash], waiters[hash][1])]

\* unsafeAddWaiter: a fresh one-slot channel appended to d.waiters[hash]
unsafeAddWaiter(hash, t) == [waiters EXCEPT ![hash] = Append(@, t)]

\* s without its i-th element
RemoveAt(s, i) == SubSeq(s, 1, i - 1) \o SubSeq(s, i + 1, Len(s))

\* a loop that takes the channels of the slice from its end
LastWaiter(hash) == Len(waiters[hash])

\* for _, ch := range d.waiters[hash]: the loop takes the channels of the
\* slice from its start.  During the completion step waiters[hash] is the
\* part of the slice the loop has still to visit (nobody else can look at
\* d.waiters then, d.mu is held)
NextWaiter(hash) == 1

\* a completion step that signals the waiter but drops the error
unsafeNotifyNil(hash, e) ==
  [chan EXCEPT ![waiters[hash][NextWaiter(hash)]] = Append(@, Nil)]

\* one iteration of unsafeNotifyWaiters: ch <- err
unsafeNotifyWaiters(hash, e) ==
  [chan EXCEPT ![waiters[hash][NextWaiter(hash)]] = Append(@, e)]

\* the handler gets a request for mirrorURL u: DownloadAndWait, d.mu.Lock()
Lock(t, u) ==
  /\ pc[t] = "idle"
  /\ mu = 0
  /\ mu' = t
  /\ url' = [url EXCEPT ![t] = u]
  /\ pc' = [pc EXCEPT ![t] = "check"]
  /\ UNCHANGED <<err, ret, path, expect, workers, waiters, chan, fileVars,
                 dashboard, clock, sweeper, outcome>>

\* a critical section that keeps d.mu locked when it starts the download
CheckHoldLock(t) ==
  LET hash == KeyOf(t) IN
  /\ pc[t] = "check"
  /\ mu = t
  /\ IF StatMeta(downloadDir(url[t]))
     THEN /\ ret' = [ret EXCEPT ![t] = Nil]
          /\ pc' = [pc EXCEPT ![t] = "ret"]
          /\ path' = [path EXCEPT ![t] = "hit"]
          /\ mu' = 0
          /\ UNCHANGED <<workers, waiters, chan>>
     ELSE IF IsDownloading(hash)
     THEN /\ waiters' = unsafeAddWaiter(hash, t)
          /\ chan' = [chan EXCEPT ![t] = <<>>]
          /\ pc' = [pc EXCEPT ![t] = "wait"]
          /\ path' = [path EXCEPT ![t] =
                        IF Fetching(hash) # {} THEN "joined" ELSE "orphan"]
          /\ mu' = 0
          /\ UNCHANGED <<workers, ret>>
     ELSE /\ workers' = [workers EXCEPT ![hash] = TRUE]
          /\ pc' = [pc EXCEPT ![t] = "dl_req"]
          /\ path' = [path EXCEPT ![t] = "fetch"]
          /\ UNCHANGED <<mu, waiters, chan, ret>>
  /\ UNCHANGED <<url, err, expect, fileVars, dashboard, clock, sweeper, outcome>>

\* the critical section: the existence check, then the coalescing decision
Check(t) ==
  LET hash == KeyOf(t) IN
  /\ pc[t] = "check"
  /\ mu = t
  /\ mu' = 0
  /\ IF StatMeta(downloadDir(url[t]))
     THEN /\ ret' = [ret EXCEPT ![t] = Nil]
          /\ pc' = [pc EXCEPT ![t] = "ret"]
          /\ path' = [path EXCEPT ![t] = "hit"]
          /\ UNCHANGED <<workers, waiters, chan>>
     ELSE IF IsDownloading(hash)
     THEN /\ waiters' = unsafeAddWaiter(hash, t)
          /\ chan' = [chan EXCEPT ![t] = <<>>]
          /\ pc' = [pc EXCEPT ![t] = "wait"]
          /\ path' = [path EXCEPT ![t] =
                        IF Fetching(hash) # {} THEN "joined" ELSE "orphan"]
          /\ UNCHANGED <<workers, ret>>
     ELSE /\ workers' = [workers EXCEPT ![hash] = TRUE]
          /\ pc' = [pc EXCEPT ![t] = "dl_req"]
          /\ path' = [path EXCEPT ![t] = "fetch"]
          /\ UNCHANGED <<waiters, chan, ret>>
  /\ UNCHANGED <<url, err, expect, fileVars, dashboard, clock, sweeper, outcome>>

\* return <-waitChan
Wait(t) ==
  /\ pc[t] = "wait"
  /\ chan[t] # <<>>
  /\ ret' = [ret EXCEPT ![t] = Head(chan[t])]
  /\ chan' = [chan EXCEPT ![t] = Tail(@)]
  /\ pc' = [pc EXCEPT ![t] = "ret"]
  /\ UNCHANGED <<url, err, path, expect, mu, workers, waiters, fileVars,
                 dashboard, clock, sweeper, outcome>>

\* d.mu.Lock() after download() returned
Relock(t) ==
  /\ pc[t] = "relock"
  /\ mu = 0
  /\ mu' = t
  /\ pc' = [pc EXCEPT ![t] = "notify"]
  /\ UNCHANGED <<url, err, ret, path, expect, workers, waiters, chan, fileVars,
                 dashboard, clock, sweeper, outcome>>

\* the channels of d.waiters[hash]
WaitersOf(hash) == {waiters[hash][i] : i \in 1..Len(waiters[hash])}

\* the completion step, one iteration of unsafeNotifyWaiters at a time (a
\* waiter can receive as soon as its channel is written; a send on a full
\* channel blocks); after the last one delete(d.waiters, hash), Unlock,
\* return err
Notify(t) ==
  LET hash == KeyOf(t) IN
  /\ pc[t] = "notify"
  /\ mu = t
  /\ IF waiters[hash] # <<>>
     THEN LET c == waiters[hash][NextWaiter(hash)] IN
          /\ chan[c] = <<>>
          /\ chan' = unsafeNotifyWaiters(hash, err[t])
          /\ waiters' = [waiters EXCEPT ![hash] = RemoveAt(@, NextWaiter(hash))]
          /\ expect' = [expect EXCEPT ![c] = err[t]]
          /\ UNCHANGED <<mu, ret, pc>>
     ELSE /\ mu' = 0
          /\ ret' = [ret EXCEPT ![t] = err[t]]
          /\ pc' = [pc EXCEPT ![t] = "ret"]
          /\ UNCHANGED <<chan, waiters, expect>>
  /\ UNCHANGED <<url, err, path, workers, fileVars, dashboard, clock, sweeper,
                 outcome>>

\* the handler is done with the request
Done(t) ==
  /\ pc' = [pc EXCEPT ![t] = "idle"]
  /\ url' = [url EXCEPT ![t] = NoURL]

\* the handler after DownloadAndWait: a 500 on an error, else ServeFile
Handle(t) ==
  /\ pc[t] = "ret"
  /\ IF ret[t] # Nil
     THEN Done(t)
     ELSE /\ pc' = [pc EXCEPT ![t] = "sf_read"]
          /\ UNCHANGED url
  /\ ret' = [ret EXCEPT ![t] = NoVal]
  /\ err' = [err EXCEPT ![t] = NoVal]
  /\ path' = [path EXCEPT ![t] = NoVal]
  /\ expect' = [expect EXCEPT ![t] = NoVal]
  /\ UNCHANGED <<lockVars, fileVars, dashboard, clock, sweeper, outcome>>

\* -------------------------------------------------------------- download

\* "ok" for a nil error, "error" for any other
Kind(e) == IF e = Nil THEN "ok" ELSE "error"

\* download() returns e: the coalescing caller goes on to its completion step
Return(t, e) ==
  /\ pc' = [pc EXCEPT ![t] = "relock"]
  /\ err' = [err EXCEPT ![t] = e]
  /\ outcome' = [outcome EXCEPT ![KeyOf(t)] = Kind(e)]

\* download() fails with e before anything is deferred or on disk
FailEarly(t, e) == Return(t, e)

\* a failing return that deletes the Status only on the way of success
FailKeepStatus(t, e) ==
  /\ pc' = [pc EXCEPT ![t] = "dl_abort"]
  /\ err' = [err EXCEPT ![t] = e]
  /\ tmpFile' = [tmpFile EXCEPT ![KeyOf(t)] = Absent]
  /\ UNCHANGED <<outcome, dashboard>>

\* a step of download() fails with e: the deferred calls run,
\* d.dashboard.Delete(hash) if the Status was registered, then the cleanup,
\* which starts with os.Remove(tmpFilename)
Fail(t, e) ==
  /\ pc' = [pc EXCEPT ![t] = "dl_abort"]
  /\ err' = [err EXCEPT ![t] = e]
  /\ dashboard' = [dashboard EXCEPT ![KeyOf(t)] = Absent]
  /\ tmpFile' = [tmpFile EXCEPT ![KeyOf(t)] = Absent]
  /\ UNCHANGED outcome

\* req.Do() and the status check
dl_req(t) ==
  /\ pc[t] = "dl_req"
  /\ \/ \E e \in {ErrTransport, ErrRemote} : FailEarly(t, e)
     \/ /\ pc' = [pc EXCEPT ![t] = "dl_create"]
        /\ UNCHANGED <<err, outcome>>
  /\ UNCHANGED <<url, ret, path, expect, lockVars, fileVars, dashboard, clock,
                 sweeper>>

\* os.Create(tmpFilename), then d.dashboard.Set(hash, st)
dl_create(t) ==
  LET k == KeyOf(t) IN
  /\ pc[t] = "dl_create"
  /\ \/ Fail(t, ErrCreate)
     \/ /\ tmpFile' = [tmpFile EXCEPT ![k] = 0]
        /\ dashboard' = [dashboard EXCEPT ![k] = 0]
        /\ pc' = [pc EXCEPT ![t] = "dl_copy"]
        /\ UNCHANGED <<err, outcome>>
  /\ UNCHANGED <<url, ret, path, expect, lockVars, dirExists, cachedFile,
                 metaFile, mtime, lastAccess, createdAt, clock, sweeper>>

\* a copy that stops before the body is through
CopyShort(k) == tmpFile[k] >= 0

\* io.Copy has moved the whole response body
CopyDone(k) == tmpFile[k] = PayloadSize

\* io.Copy(io.MultiWriter(st, f), res.Body) moves one chunk or fails (then
\* f.Close and os.Remove(tmpFilename) before the return); at the end of the
\* body, f.Close()
dl_copy(t) ==
  LET k == KeyOf(t) IN
  /\ pc[t] = "dl_copy"
  /\ \/ /\ ~CopyDone(k)
        /\ tmpFile' = [tmpFile EXCEPT ![k] = @ + 1]
        /\ dashboard' = [dashboard EXCEPT ![k] = @ + 1]
        /\ UNCHANGED <<pc, err, outcome>>
     \/ /\ ~CopyDone(k)
        /\ Fail(t, ErrCopy)
     \/ /\ CopyDone(k)
        /\ Fail(t, ErrClose)
     \/ /\ CopyDone(k)
        /\ pc' = [pc EXCEPT ![t] = "dl_mkdir"]
        /\ UNCHANGED <<tmpFile, dashboard, err, outcome>>
  /\ UNCHANGED <<url, ret, path, expect, lockVars, dirExists, cachedFile,
                 metaFile, mtime, lastAccess, createdAt, clock, sweeper>>

\* os.MkdirAll(targetDir, 0755)
dl_mkdir(t) ==
  LET k == KeyOf(t) IN
  /\ pc[t] = "dl_mkdir"
  /\ \/ /\ Fail(t, ErrMkdir)
        /\ UNCHANGED dirExists
     \/ /\ dirExists' = [dirExists EXCEPT ![k] = TRUE]
        /\ pc' = [pc EXCEPT ![t] = "dl_rename"]
        /\ UNCHANGED <<err, outcome, tmpFile, dashboard>>
  /\ UNCHANGED <<url, ret, path, expect, lockVars, cachedFile, metaFile, mtime,
                 lastAccess, createdAt, clock, sweeper>>

\* os.Rename(tmpFilename, targetPath): the staged bytes become cached.file
dl_rename(t) ==
  LET k == KeyOf(t) IN
  /\ pc[t] = "dl_rename"
  /\ \/ /\ Fail(t, ErrRename)
        /\ UNCHANGED cachedFile
     \/ /\ dirExists[k] /\ tmpFile[k] # Absent
        /\ cachedFile' = [cachedFile EXCEPT ![k] = tmpFile[k]]
        /\ tmpFile' = [tmpFile EXCEPT ![k] = Absent]
        /\ pc' = [pc EXCEPT ![t] = "dl_meta_open"]
        /\ UNCHANGED <<err, outcome, dashboard>>
  /\ UNCHANGED <<url, ret, path, expect, lockVars, dirExists, metaFile, mtime,
                 lastAccess, createdAt, clock, sweeper>>

\* ioutil.WriteFile, first half: OpenFile(O_WRONLY|O_CREATE|O_TRUNC) creates
\* an empty meta.json
dl_meta_open(t) ==
  LET k == KeyOf(t) IN
  /\ pc[t] = "dl_meta_open"
  /\ \/ /\ Fail(t, ErrMeta)
        /\ UNCHANGED <<metaFile, mtime, lastAccess>>
     \/ /\ dirExists[k]
        /\ metaFile' = [metaFile EXCEPT ![k] = "empty"]
        /\ mtime' = [mtime EXCEPT ![k] = clock]
        /\ lastAccess' = [lastAccess EXCEPT ![k] = clock]
        /\ pc' = [pc EXCEPT ![t] = "dl_meta_write"]
        /\ UNCHANGED <<err, outcome, tmpFile, dashboard>>
  /\ UNCHANGED <<url, ret, path, expect, lockVars, dirExists, cachedFile,
                 createdAt, clock, sweeper>>

\* ioutil.WriteFile, second half: Write and Close, and download() returns
\* nil after d.dashboard.Delete(hash).  A meta.json unlinked in between is
\* written through the open descriptor and stays unlinked.
dl_meta_write(t) ==
  LET k == KeyOf(t) IN
  /\ pc[t] = "dl_meta_write"
  /\ \/ /\ Fail(t, ErrMeta)
        /\ UNCHANGED <<metaFile, mtime, lastAccess, createdAt>>
     \/ /\ IF metaFile[k] # "absent"
           THEN /\ metaFile' = [metaFile EXCEPT ![k] = "valid"]
                /\ mtime' = [mtime EXCEPT ![k] = clock]
                /\ lastAccess' = [lastAccess EXCEPT ![k] = clock]
                /\ createdAt' = [createdAt EXCEPT ![k] = clock]
           ELSE UNCHANGED <<metaFile, mtime, lastAccess, createdAt>>
        /\ dashboard' = [dashboard EXCEPT ![k] = Absent]
        /\ Return(t, Nil)
        /\ UNCHANGED tmpFile
  /\ UNCHANGED <<url, ret, path, expect, lockVars, dirExists, cachedFile, clock,
                 sweeper>>

\* os.RemoveAll(dir) unlinks the directory's files one at a time, in the
\* order the directory lists them ...
RemoveChild(k) ==
  /\ dirExists[k]
  /\ \/ /\ cachedFile[k] # Absent
        /\ cachedFile' = [cachedFile EXCEPT ![k] = Absent]
        /\ UNCHANGED metaFile
     \/ /\ metaFile[k] # "absent"
        /\ metaFile' = [metaFile EXCEPT ![k] = "absent"]
        /\ UNCHANGED cachedFile
  /\ UNCHANGED dirExists

\* ... and then removes the empty directory; a missing one is no error
RemoveDir(k) ==
  /\ dirExists[k] => (cachedFile[k] = Absent /\ metaFile[k] = "absent")
  /\ dirExists' = [dirExists EXCEPT ![k] = FALSE]
  /\ UNCHANGED <<cachedFile, metaFile>>

\* a cleanup that leaves the target directory behind
dl_abort_skip(t) ==
  /\ pc[t] = "dl_abort"
  /\ Return(t, err[t])
  /\ UNCHANGED <<url, ret, path, expect, lockVars, fileVars, dashboard, clock,
                 sweeper>>

\* the rest of the deferred cleanup: os.RemoveAll(targetDir), and download()
\* returns err
dl_abort(t) ==
  LET k == KeyOf(t) IN
  /\ pc[t] = "dl_abort"
  /\ \/ /\ RemoveChild(k)
        /\ UNCHANGED <<pc, err, outcome>>
     \/ /\ RemoveDir(k)
        /\ Return(t, err[t])
  /\ UNCHANGED <<url, ret, path, expect, lockVars, tmpFile, mtime, lastAccess,
                 createdAt, dashboard, clock, sweeper>>

\* ------------------------------------------------------------- ServeFile

\* a ServeFile that does not touch meta.json
ChtimesNone(k) == mtime

\* os.Chtimes(metaPath, mtime, mtime); its error (a missing file) is dropped
Chtimes(k) == IF metaFile[k] # "absent" THEN [mtime EXCEPT ![k] = clock] ELSE mtime

\* ioutil.ReadFile(metaPath) and json.Unmarshal: a 404 without the file, a
\* 500 on a file that holds no complete record
sf_read(t) ==
  LET k == downloadDir(url[t]) IN
  /\ pc[t] = "sf_read"
  /\ IF metaFile[k] = "valid"
     THEN /\ pc' = [pc EXCEPT ![t] = "sf_touch"]
          /\ UNCHANGED url
     ELSE Done(t)
  /\ UNCHANGED <<err, ret, path, expect, lockVars, fileVars, dashboard, clock,
                 sweeper, outcome>>

\* mtime := time.Now(); os.Chtimes(metaPath, mtime, mtime)
sf_touch(t) ==
  LET k == downloadDir(url[t]) IN
  /\ pc[t] = "sf_touch"
  /\ mtime' = Chtimes(k)
  /\ lastAccess' = [lastAccess EXCEPT ![k] =
                      IF metaFile[k] # "absent" THEN clock ELSE @]
  /\ pc' = [pc EXCEPT ![t] = "sf_open"]
  /\ UNCHANGED <<url, ret, err, path, expect, lockVars, tmpFile, dirExists,
                 cachedFile, metaFile, createdAt, dashboard, clock, sweeper,
                 outcome>>

\* os.Open(cached.file): a 500 without the file, else http.ServeContent
\* streams what the file holds
sf_open(t) ==
  /\ pc[t] = "sf_open"
  /\ Done(t)
  /\ UNCHANGED <<err, ret, path, expect, lockVars, fileVars, dashboard, clock,
                 sweeper, outcome>>

\* ----------------------------------------------------------------- Clean

\* filepath.Walk visits the entries in lexical order of their paths
WalkOrder == <<"h1", "h2">>

\* main's sweeper loop calls Clean(keepDuration); filepath.Walk starts
CleanStart(keep) ==
  /\ sweeper.pc = "sleep"
  /\ sweeper' = [pc |-> "walk", keep |-> keep, todo |-> WalkOrder, info |-> 0]
  /\ UNCHANGED <<taskVars, lockVars, fileVars, dashboard, clock, outcome>>

\* Walk reaches the next entry: an entry with no meta.json gives the
\* callback nothing to do; else Walk's lstat of meta.json reads its ModTime
CleanLstat ==
  /\ sweeper.pc = "walk"
  /\ sweeper.todo # <<>>
  /\ LET k == Head(sweeper.todo) IN
       IF metaFile[k] = "absent"
       THEN sweeper' = [sweeper EXCEPT !.todo = Tail(@)]
       ELSE sweeper' = [sweeper EXCEPT !.pc = "callback", !.info = mtime[k]]
  /\ UNCHANGED <<taskVars, lockVars, fileVars, dashboard, clock, outcome>>

\* Walk fails to read the next path (its lstat or its directory listing gives
\* an error): the callback is called with err # nil, prints it and returns
\* it, which makes filepath.Walk stop and return; Clean returns
CleanWalkErr ==
  /\ sweeper.pc = "walk"
  /\ sweeper.todo # <<>>
  /\ sweeper' = [sweeper EXCEPT !.pc = "sleep", !.keep = 0, !.todo = <<>>]
  /\ UNCHANGED <<taskVars, lockVars, fileVars, dashboard, clock, outcome>>

\* existsDuration > keepDuration, with existsDuration = time.Since(info.ModTime())
Expired(info, keep) == clock - info > keep

\* the callback on meta.json: it decides whether to os.RemoveAll the entry
CleanCallback ==
  /\ sweeper.pc = "callback"
  /\ IF Expired(sweeper.info, sweeper.keep)
     THEN sweeper' = [sweeper EXCEPT !.pc = "remove", !.info = 0]
     ELSE sweeper' = [sweeper EXCEPT !.pc = "walk", !.todo = Tail(@), !.info = 0]
  /\ UNCHANGED <<taskVars, lockVars, fileVars, dashboard, clock, outcome>>

\* os.RemoveAll(filepath.Dir(path)) of the callback
CleanRemove ==
  LET k == Head(sweeper.todo) IN
  /\ sweeper.pc = "remove"
  /\ \/ /\ RemoveChild(k)
        /\ UNCHANGED sweeper
     \/ /\ RemoveDir(k)
        /\ sweeper' = [sweeper EXCEPT !.pc = "walk", !.todo = Tail(@)]
  /\ UNCHANGED <<taskVars, lockVars, tmpFile, mtime, lastAccess, createdAt,
                 dashboard, clock, outcome>>

\* Walk has visited everything: Clean returns and the loop sleeps
CleanEnd ==
  /\ sweeper.pc = "walk"
  /\ sweeper.todo = <<>>
  /\ sweeper' = [sweeper EXCEPT !.pc = "sleep", !.keep = 0]
  /\ UNCHANGED <<taskVars, lockVars, fileVars, dashboard, clock, outcome>>

\* time passes
Tick(max) ==
  /\ clock < max
  /\ clock' = clock + 1
  /\ UNCHANGED <<taskVars, lockVars, fileVars, dashboard, sweeper, outcome>>

\* ------------------------------------------------------------------ Spec

TaskStep(t, U) ==
  \/ \E u \in U : Lock(t, u)
  \/ Check(t)
  \/ Wait(t)
  \/ dl_req(t)
  \/ dl_create(t)
  \/ dl_copy(t)
  \/ dl_mkdir(t)
  \/ dl_rename(t)
  \/ dl_meta_open(t)
  \/ dl_meta_write(t)
  \/ dl_abort(t)
  \/ Relock(t)
  \/ Notify(t)
  \/ Handle(t)
  \/ sf_read(t)
  \/ sf_touch(t)
  \/ sf_open(t)

SweeperStep(R) ==
  \/ \E keep \in R : CleanStart(keep)
  \/ CleanLstat
  \/ CleanWalkErr
  \/ CleanCallback
  \/ CleanRemove
  \/ CleanEnd

Next ==
  \/ \E t \in Callers : TaskStep(t, URLs)
  \/ SweeperStep(Retentions)
  \/ Tick(MaxClock)

Spec == Init /\ [][Next]_vars

\* one URL over a longer time: commits, reads and sweeps
SweepNext ==
  \/ \E t \in Callers : TaskStep(t, {"u1"})
  \/ SweeperStep(SweepRetentions)
  \/ Tick(SweepMaxClock)

SweepSpec == Init /\ [][SweepNext]_vars

\* the coalescing engine alone, one URL, under the fairness of Go's
\* scheduler and mutex: a task that can step again and again does step
FairNext == \E t \in Callers : TaskStep(t, {"u1"})

FairSpec == Init /\ [][FairNext]_vars /\ \A t \in Callers : SF_vars(TaskStep(t, {"u1"}))

\* the coalescing engine alone with enough callers of one URL for a fetch to
\* have several waiters
FifoNext == \E t \in Tasks : TaskStep(t, {"u1"})

FifoSpec == Init /\ [][FifoNext]_vars

\* ---------------------------------------------------------------- claims

\* C1: in every reachable state, for every key, at most one task is
\* executing download() for that key.
C1_OneDownloadPerKey == \A k \in Keys : Cardinality(Downloading(k)) <= 1

\* a download of a key is running while another caller of the same key is
\* parked on its channel
C1_Witness ==
  \E k \in Keys : \E t \in Downloading(k) : \E w \in Tasks :
    w # t /\ pc[w] = "wait" /\ KeyOf(w) = k

C3_FreshAttemptAfterFailure ==
  [][\A t \in Tasks :
       (/\ pc[t] = "check" /\ pc'[t] # "check"
        /\ outcome[KeyOf(t)] = "error"
        /\ Fetching(KeyOf(t)) = {}
        /\ metaFile[KeyOf(t)] = "absent")
       => pc'[t] = "dl_req"]_vars

\* C4: with every download() terminating and fair scheduling, every
\* DownloadAndWait call that found its key uncached eventually returns.
C4_EveryCallerReturns ==
  \A t \in Tasks : (pc[t] \in {"wait"} \cup FetchPCs) ~> (pc[t] = "ret")

\* C5: a DownloadAndWait call that runs its existence check when the entry of
\* its key is committed returns nil at once: it starts no download and
\* registers no waiter.
C5_FastPath ==
  [][\A t \in Tasks :
       (pc[t] = "check" /\ pc'[t] # "check" /\ metaFile[KeyOf(t)] = "valid")
       => /\ pc'[t] = "ret" /\ ret'[t] = Nil
          /\ UNCHANGED <<workers, waiters, chan, fileVars, dashboard>>]_vars

\* a caller has come back from the fast path
C5_Witness ==
  \E t \in Tasks : pc[t] = "ret" /\ path[t] = "hit" /\ ret[t] = Nil
                   /\ metaFile[KeyOf(t)] = "valid"

\* an os.RemoveAll of the entry directory of k is under way: the sweeper's,
\* or the cleanup of a failed download
Removing(k) ==
  \/ sweeper.pc = "remove" /\ Head(sweeper.todo) = k
  \/ \E t \in Tasks : pc[t] = "dl_abort" /\ KeyOf(t) = k

\* C6 as stated: in every reachable state in which meta.json exists for a
\* key, cached.file exists and holds the complete bytes of the fetch.
C6_MetaImpliesPayload ==
  \A k \in Keys : metaFile[k] # "absent" => cachedFile[k] = PayloadSize

\* C6 as amended: cached.file, whenever it exists, holds the complete bytes
\* of the fetch (they are staged in <hash>.tmp only and arrive by the one
\* rename, the only step that makes it appear), and it exists with meta.json
\* in every state in which no os.RemoveAll of the entry directory is under
\* way.
C6_NoHalfWrittenPayload ==
  /\ [](\A k \in Keys :
         /\ cachedFile[k] \in {Absent, PayloadSize}
         /\ (metaFile[k] # "absent" /\ ~Removing(k))
              => cachedFile[k] = PayloadSize
         /\ tmpFile[k] # Absent
              => (Downloading(k) # {} /\ cachedFile[k] = Absent))
  /\ [][\A k \in Keys :
          (cachedFile[k] = Absent /\ cachedFile'[k] # Absent)
          => /\ tmpFile[k] = PayloadSize
             /\ tmpFile'[k] = Absent
             /\ cachedFile'[k] = PayloadSize]_vars

\* a reader is about to open the payload of a committed entry
C6_Witness ==
  \E t \in Tasks : /\ pc[t] = "sf_open"
                   /\ metaFile[KeyOf(t)] = "valid"
                   /\ cachedFile[KeyOf(t)] = PayloadSize

\* C7: whenever the existence check of DownloadAndWait's fast path succeeds
\* for a key, the entry holds a complete, valid metadata record.
C7_HitImpliesValidMeta ==
  [][\A t \in Tasks :
       (pc[t] = "check" /\ pc'[t] = "ret") => metaFile[KeyOf(t)] = "valid"]_vars

\* a DownloadAndWait call for k has returned nil and its handler is not done
ReturnedNil(k) ==
  \E t \in Tasks :
    /\ KeyOf(t) = k
    /\ \/ pc[t] = "ret" /\ ret[t] = Nil
       \/ pc[t] \in {"sf_read", "sf_touch", "sf_open"}

\* C8: after a DownloadAndWait call for a key has returned nil, meta.json of
\* the key stays until a sweep removes it: no step of a request task does.
C8_CachedUntilSwept ==
  [][\A k \in Keys :
       (ReturnedNil(k) /\ metaFile[k] # "absent" /\ metaFile'[k] = "absent")
       => (sweeper.pc = "remove" /\ Head(sweeper.todo) = k)]_vars

\* C9: whenever download() has returned an error, whatever step failed, the
\* key has no staging file, no entry directory, no cached.file and no
\* meta.json, and is reported as not cached.
C9_FailureLeavesNothing ==
  \A t \in Tasks :
    (pc[t] \in {"relock", "notify"} /\ err[t] # Nil) =>
      LET k == KeyOf(t) IN
      /\ tmpFile[k] = Absent
      /\ ~dirExists[k]
      /\ cachedFile[k] = Absent
      /\ metaFile[k] = "absent"
      /\ ~StatMeta(k)
      /\ ~IsCached(url[t])

\* download() has returned the error of its last step, the metadata write,
\* after the directory, cached.file and meta.json had all been created
C9_Witness ==
  \E t \in Tasks : pc[t] = "relock" /\ err[t] = ErrMeta /\ clock > 0
                   /\ createdAt[KeyOf(t)] = 0 /\ lastAccess[KeyOf(t)] > 0

C11_WalkErrorSkipped ==
  [][(sweeper.pc = "walk" /\ sweeper'.pc = "sleep")
       => \A i \in 2..Len(sweeper.todo) :
            LET k == sweeper.todo[i] IN
            ~(metaFile[k] = "valid" /\ Expired(mtime[k], sweeper.keep))]_vars

\* C12: d.mu is held by a task only in its critical sections (the existence
\* check with the coalescing decision, and the completion step), never while
\* the task is inside download() or blocked on its channel; the holder can
\* always finish its critical section, whatever the downloads in progress
\* are doing.
C12_LockNotHeldInDownload ==
  /\ mu \in {0} \cup Tasks
  /\ \A t \in Tasks :
       /\ (mu = t) <=> (pc[t] \in {"check", "notify"})
       /\ pc[t] \in DownloadPCs \cup {"wait"} => mu # t
       /\ mu = t => ENABLED (Check(t) \/ Notify(t))

\* while one task is inside download() for u1, another holds d.mu in the
\* critical section of its call for u2 (it can only have locked after the
\* first left its own critical section)
C12_Witness ==
  \E t, w \in Tasks :
    /\ pc[t] \in DownloadPCs /\ url[t] = "u1"
    /\ pc[w] = "check" /\ mu = w /\ url[w] = "u2"

\* C13: in every state with no active fetch for a key (no task between the
\* start of download() and the end of its completion step), d.workers holds
\* no in-flight mark for the key and d.waiters holds no waiter for it.
C13_NoRecordWithoutFetch ==
  \A k \in Keys :
    Fetching(k) = {} => (~workers[k] /\ waiters[k] = <<>>)

\* C14: every waiter has its own one-slot channel; a channel registered in
\* d.waiters is empty with its owner blocked on it, so no send of the
\* completion step blocks and the step can always go on, whatever the
\* waiters do; a channel is written only by the completion step of the fetch
\* of its key, with that fetch's err, is taken off the list by that write
\* and so is written once; and the completion step ends only when it has
\* written every registered channel.
C14_OneSendPerChannel ==
  /\ [](/\ \A c \in Tasks : Len(chan[c]) <= 1
        /\ \A k \in Keys : \A i, j \in 1..Len(waiters[k]) :
             waiters[k][i] = waiters[k][j] => i = j
        /\ \A k \in Keys : \A c \in WaitersOf(k) :
             chan[c] = <<>> /\ pc[c] = "wait" /\ KeyOf(c) = k
        /\ \A t \in Tasks : pc[t] = "notify" => ENABLED Notify(t))
  /\ [][\A c \in Tasks :
          chan'[c] # chan[c] /\ chan'[c] # <<>>
          => \E f \in Tasks :
               /\ pc[f] = "notify" /\ mu = f /\ mu' = f
               /\ c \in WaitersOf(KeyOf(f))
               /\ chan[c] = <<>>
               /\ chan'[c] = <<err[f]>>
               /\ \A k \in Keys : \A i \in 1..Len(waiters'[k]) :
                    waiters'[k][i] # c]_vars
  /\ [][\A f \in Tasks :
          (pc[f] = "notify" /\ pc'[f] # "notify")
          => (waiters[KeyOf(f)] = <<>> /\ waiters'[KeyOf(f)] = <<>>)]_vars

\* the fetcher has finished its completion step and returned while two
\* waiters have not yet read the value in their channels
C14_Witness ==
  \E f, w1, w2 \in Tasks :
    /\ w1 # w2
    /\ pc[f] = "ret" /\ path[f] = "fetch" /\ mu = 0
    /\ pc[w1] = "wait" /\ chan[w1] = <<ret[f]>>
    /\ pc[w2] = "wait" /\ chan[w2] = <<ret[f]>>

\* C15: in every reachable state IsCached(url) is true iff meta.json exists
\* for the key, that is iff the existence check of DownloadAndWait's fast
\* path would succeed.
C15_IsCachedIffMeta ==
  \A u \in URLs : IsCached(u) <=> StatMeta(downloadDir(u))

\* download() of task t is between d.dashboard.Set and its return
Registered(t) ==
  pc[t] \in {"dl_copy", "dl_mkdir", "dl_rename", "dl_meta_open",
             "dl_meta_write"}

\* C16: d.dashboard holds a Status for a key exactly while a download() of
\* the key is between its dashboard.Set and its return: the Status is put
\* there by that download with Copied = 0, Copied never decreases (it counts
\* the bytes staged), and it is gone whenever the download has ended, by
\* success or by any failure, so with no download active the registry is
\* empty.
C16_DashboardOnlyWhileDownloading ==
  /\ [](\A k \in Keys :
         /\ dashboard[k] # Absent
              <=> \E t \in Tasks : Registered(t) /\ KeyOf(t) = k
         /\ dashboard[k] \in {Absent} \cup 0..PayloadSize
         /\ Downloading(k) = {} => dashboard[k] = Absent)
  /\ [](\A t \in Tasks :
         pc[t] \in {"dl_abort", "relock", "notify"}
           => dashboard[KeyOf(t)] = Absent)
  /\ [][\A k \in Keys :
          /\ (dashboard[k] # Absent /\ dashboard'[k] # Absent)
               => dashboard'[k] >= dashboard[k]
          /\ (dashboard[k] = Absent /\ dashboard'[k] # Absent)
               => /\ dashboard'[k] = 0
                  /\ \E t \in Tasks : /\ pc[t] = "dl_create"
                                      /\ pc'[t] = "dl_copy"
                                      /\ KeyOf(t) = k]_vars

\* a download that had registered its Status has ended with a stream error
C16_Witness ==
  \E t \in Tasks : /\ pc[t] = "relock"
                   /\ err[t] = ErrCopy
                   /\ dashboard[KeyOf(t)] = Absent

\* C17: the waiters of a fetch are written in the order in which they
\* registered: a registration puts the newcomer behind the channels already
\* in d.waiters[hash]; every write goes to the earliest registered channel
\* not yet written; it is done by the fetcher after its download() returned,
\* with d.mu held before and after, and the fetcher gives up d.mu only when
\* no registered channel is left unwritten.
C17_NotifyInRegistrationOrder ==
  /\ [][\A k \in Keys :
          Len(waiters'[k]) > Len(waiters[k])
          => /\ Len(waiters'[k]) = Len(waiters[k]) + 1
             /\ SubSeq(waiters'[k], 1, Len(waiters[k])) = waiters[k]
             /\ LET w == waiters'[k][Len(waiters'[k])] IN
                pc[w] = "check" /\ pc'[w] = "wait" /\ KeyOf(w) = k]_vars
  /\ [][\A c \in Tasks :
          (chan[c] = <<>> /\ chan'[c] # <<>>)
          => \E f \in Tasks :
               /\ pc[f] = "notify" /\ err[f] # NoVal
               /\ mu = f /\ mu' = f
               /\ c = waiters[KeyOf(f)][1]
               /\ waiters'[KeyOf(f)] = Tail(waiters[KeyOf(f)])]_vars
  /\ [][\A f \in Tasks :
          (pc[f] = "notify" /\ mu = f /\ mu' # f)
          => waiters[KeyOf(f)] = <<>>]_vars

\* the completion step has written the channel of one waiter and still holds
\* d.mu with the channel of a second waiter next
C17_Witness ==
  \E f, w1, w2 \in Tasks :
    /\ w1 # w2
    /\ pc[f] = "notify" /\ mu = f
    /\ pc[w1] = "wait" /\ chan[w1] = <<err[f]>>
    /\ pc[w2] = "wait" /\ chan[w2] = <<>>
    /\ waiters[KeyOf(f)] = <<w2>>

\* C18: after Clean has removed the committed entry of a key (its last
\* download returned nil, nothing of the entry is left and no fetch of
\* the key is running), a DownloadAndWait call for the key that finds it
\* uncached starts a new download().
C18_RefetchAfterEviction ==
  [][\A t \in Tasks :
       LET k == KeyOf(t) IN
       (/\ pc[t] = "check" /\ pc'[t] # "check"
        /\ outcome[k] = "ok"
        /\ metaFile[k] = "absent" /\ ~dirExists[k]
        /\ Fetching(k) = {})
       => pc'[t] = "dl_req"]_vars

\* C19: Clean never removes an entry whose last access is within the
\* retention window at the moment of the removal, in particular not after a
\* ServeFile touch: whenever a step of the sweeper's os.RemoveAll unlinks a
\* file of a committed entry that a ServeFile has touched since its commit,
\* the time since that touch exceeds keepDuration.
C19_TouchKeepsEntry ==
  [][\A k \in Keys :
       (/\ sweeper.pc = "remove" /\ Head(sweeper.todo) = k
        /\ \A t \in Tasks : ~(pc[t] = "dl_abort" /\ KeyOf(t) = k)
        /\ metaFile[k] = "valid"
        /\ lastAccess[k] > createdAt[k]
        /\ (metaFile'[k] = "absent" \/ cachedFile'[k] # cachedFile[k]))
       => clock - lastAccess[k] > sweeper.keep]_vars

====
